---- MODULE Spec2Model ----
(***************************************************************************)
(* Retry policy with location failover of azure-data-tables               *)
(* (azure/data/tables/_policies.py): is_exhausted, is_retry,               *)
(* TablesRetryPolicy (configure_retries, increment, sleep, send),          *)
(* ExponentialRetry and LinearRetry get_backoff_time.                      *)
(*                                                                         *)
(* One call of TablesRetryPolicy.send is a state machine: SendBegin runs   *)
(* configure_retries, and every iteration of the while loop (one call of   *)
(* self.next.send plus the bookkeeping that follows it) is one action,     *)
(* chosen by the outcome of the next pipeline stage.                       *)
(*                                                                         *)
(* Also modelled: StorageHosts.on_request, which runs before send          *)
(* (SpecHosts), StorageContentValidation.on_request with get_content_md5,  *)
(* which also runs before send (SpecContent), two calls of send on one     *)
(* policy (SpecTwo), and _validate_input and _check_string_index_type_arg  *)
(* of azure/ai/textanalytics/_request_handlers.py (SpecPure).              *)
(***************************************************************************)
EXTENDS Integers, Sequences, FiniteSets, TLC

VARIABLES
    policy,     \* the policy instance: its class and constructor arguments
    options,    \* request.context.options, the per-request overrides
    request,    \* request.http_request: method, url, body (in SpecContent
                \* also its headers and the context of the request)
    settings,   \* retry_settings, the dict built by configure_retries
    pc,         \* position of send: "init", "loop", "returned", "raised"
    response,   \* the response returned by send (NoResponse before)
    raised,     \* the error raised by send ("none" before)
    trace,      \* observed effects, in order: sends, hook calls, sleeps
    next_stage, \* the outcomes self.next.send can have for this request
    calc,       \* last evaluation of a pure function (specification SpecPure)
    calls,      \* the calls of send on this policy: which one is running,
                \* the options each was given, the call that is waiting
    storage_hosts   \* the StorageHosts policy of the pipeline: its hosts

vars == <<policy, options, request, settings, pc, response, raised, trace,
          next_stage, calc, calls, storage_hosts>>

----------------------------------------------------------------------------
\* Bounds of the model

MaxTotal == 3       \* largest retry_total drawn
MaxSub == 2         \* largest retry_connect / retry_read / retry_status drawn
BodyLen == 2        \* length of a stream body
MaxStatus == 600    \* statuses drawn for is_retry are 100..MaxStatus
MaxBackoff == 16    \* largest initial_backoff / backoff drawn for get_backoff_time
MaxBase == 3        \* largest increment_base drawn for get_backoff_time
MaxCount == 3       \* largest settings["count"] drawn for get_backoff_time
MaxJitter == 3      \* largest random_jitter_range drawn for get_backoff_time
BudgetSpan == 2     \* budgets drawn for is_exhausted are -BudgetSpan..BudgetSpan
MaxDeficit == 1     \* retry budgets given to a constructor start at -MaxDeficit
MaxDocs == 2        \* longest list of documents drawn for _validate_input

----------------------------------------------------------------------------
\* Values

PRIMARY == "primary"
SECONDARY == "secondary"
LocationMode == {PRIMARY, SECONDARY}

\* Python None for an integer-valued slot (tell() never returns a negative).
None == -1

\* The classes of exception self.next.send can raise.
ServiceRequestError == "ServiceRequestError"
ServiceResponseError == "ServiceResponseError"
AzureError == "AzureError"
OtherException == "Exception"
AzureErrors == {ServiceRequestError, ServiceResponseError, AzureError}

NoResponse == [status |-> 0]
NoSettings == [count |-> 0]
Idle == [fn |-> "idle"]
NoCall == [pc |-> "none"]

----------------------------------------------------------------------------
\* Pure functions

\* filter(None, retry_counts): drops the falsy entries, i.e. the zeros.
FilterNone(counts) == SelectSeq(counts, LAMBDA c : c # 0)

RECURSIVE MinSeq(_)
MinSeq(s) ==
    IF Len(s) = 1 THEN s[1]
    ELSE LET m == MinSeq(Tail(s)) IN IF s[1] < m THEN s[1] ELSE m

\* Variant: a budget is used up once it is below -1.
is_exhausted_late(s) ==
    MinSeq(<<s.total, s.connect, s.read, s.status>>) < -1

\* Variant: a budget that has reached 0 counts as used up.
is_exhausted_zero(s) ==
    MinSeq(<<s.total, s.connect, s.read, s.status>>) <= 0

\* Variant: only the total budget is looked at.
is_exhausted_total_only(s) == s.total < 0

is_exhausted(s) ==
    LET retry_counts == FilterNone(<<s.total, s.connect, s.read, s.status>>)
    IN  IF retry_counts = <<>> THEN FALSE
        ELSE MinSeq(retry_counts) < 0

\* Variant: 404 is retried whatever the location mode.
is_retry_any_mode(status, mode) ==
    IF 300 <= status /\ status < 500
    THEN status \in {404, 408}
    ELSE status >= 500 /\ status \notin {501, 505}

is_retry(status, mode) ==
    IF 300 <= status /\ status < 500
    THEN IF status = 404 /\ mode = SECONDARY THEN TRUE
         ELSE IF status = 408 THEN TRUE
         ELSE FALSE
    ELSE IF status >= 500
    THEN IF status \in {501, 505} THEN FALSE ELSE TRUE
    ELSE FALSE

RECURSIVE pow(_, _)
pow(b, e) == IF e = 0 THEN 1 ELSE b * pow(b, e - 1)

\* random.Random().uniform(a, b) = a + (b - a) * random(): any value between
\* the two ends, whichever is the larger.  Integer grid.
uniform(a, b) == IF a <= b THEN a .. b ELSE b .. a

\* The jittered interval shared by the three get_backoff_time methods.
\* Variant: the lower end is not clamped to 0.
random_range_start_unclamped(backoff, jitter) == backoff - jitter

random_range_start(backoff, jitter) ==
    IF backoff > jitter THEN backoff - jitter ELSE 0

random_range_end(backoff, jitter) == backoff + jitter

\* Variant: the power is added on the first retry too.
exponential_backoff_always_pow(p, count) ==
    p.initial_backoff + pow(p.increment_base, count)

exponential_backoff(p, count) ==
    p.initial_backoff + (IF count = 0 THEN 0 ELSE pow(p.increment_base, count))

TablesRetryPolicy_get_backoff_time(p, s) ==
    LET backoff == exponential_backoff(p, s.count)
    IN  uniform(random_range_start(backoff, p.random_jitter_range),
                random_range_end(backoff, p.random_jitter_range))

ExponentialRetry_get_backoff_time(p, s) ==
    LET backoff == exponential_backoff(p, s.count)
    IN  uniform(random_range_start(backoff, p.random_jitter_range),
                random_range_end(backoff, p.random_jitter_range))

LinearRetry_get_backoff_time(p, s) ==
    uniform(random_range_start(p.backoff, p.random_jitter_range),
            random_range_end(p.backoff, p.random_jitter_range))

\* Method resolution of self.get_backoff_time.
get_backoff_time(p, s) ==
    IF p.kind = "LinearRetry" THEN LinearRetry_get_backoff_time(p, s)
    ELSE IF p.kind = "ExponentialRetry" THEN ExponentialRetry_get_backoff_time(p, s)
    ELSE TablesRetryPolicy_get_backoff_time(p, s)

----------------------------------------------------------------------------
\* Construction

\* Variant: the connect and read budgets are taken from each other's keyword.
TablesRetryPolicy_init_swapped(self, initial_backoff, increment_base, retry_total, retry_to_secondary, random_jitter_range, kw) ==
    [self EXCEPT
        !.initial_backoff = initial_backoff,
        !.increment_base = increment_base,
        !.random_jitter_range = random_jitter_range,
        !.total_retries = retry_total,
        !.connect_retries = IF "retry_read" \in DOMAIN kw THEN kw.retry_read ELSE 3,
        !.read_retries = IF "retry_connect" \in DOMAIN kw THEN kw.retry_connect ELSE 3,
        !.status_retries = IF "retry_status" \in DOMAIN kw THEN kw.retry_status ELSE 3,
        !.retry_to_secondary = retry_to_secondary]

\* TablesRetryPolicy.__init__: kw holds the retry_connect / retry_read /
\* retry_status keyword arguments that were given.
TablesRetryPolicy_init(self, initial_backoff, increment_base, retry_total, retry_to_secondary, random_jitter_range, kw) ==
    [self EXCEPT
        !.initial_backoff = initial_backoff,
        !.increment_base = increment_base,
        !.random_jitter_range = random_jitter_range,
        !.total_retries = retry_total,
        !.connect_retries = IF "retry_connect" \in DOMAIN kw THEN kw.retry_connect ELSE 3,
        !.read_retries = IF "retry_read" \in DOMAIN kw THEN kw.retry_read ELSE 3,
        !.status_retries = IF "retry_status" \in DOMAIN kw THEN kw.retry_status ELSE 3,
        !.retry_to_secondary = retry_to_secondary]

\* An object before __init__ has run: no attribute is set yet (0 / FALSE
\* stand for "unset"; every attribute read by the model is set by __init__).
NewObject(kind, a) ==
    [kind |-> kind, args |-> a,
     initial_backoff |-> 0, increment_base |-> 0, backoff |-> 0,
     random_jitter_range |-> 0, total_retries |-> 0, connect_retries |-> 0,
     read_retries |-> 0, status_retries |-> 0, retry_to_secondary |-> FALSE]

\* ExponentialRetry.__init__: sets three attributes, then calls the base
\* __init__ with retry_total, retry_to_secondary and **kwargs only, so the
\* base __init__ runs with its own defaults 15, 3, 3 for the other three.
ExponentialRetry_init(self, initial_backoff, increment_base, retry_total, retry_to_secondary, random_jitter_range, kw) ==
    LET own == [self EXCEPT !.initial_backoff = initial_backoff,
                            !.increment_base = increment_base,
                            !.random_jitter_range = random_jitter_range]
    IN  TablesRetryPolicy_init(own, 15, 3, retry_total, retry_to_secondary, 3, kw)

\* LinearRetry.__init__: sets backoff and random_jitter_range, then calls the
\* base __init__ the same way.
LinearRetry_init(self, backoff, retry_total, retry_to_secondary, random_jitter_range, kw) ==
    LET own == [self EXCEPT !.backoff = backoff,
                            !.random_jitter_range = random_jitter_range]
    IN  TablesRetryPolicy_init(own, 15, 3, retry_total, retry_to_secondary, 3, kw)

\* Constructor call `kind(**a)` with every argument given.
Construct(kind, a) ==
    LET kw == [retry_connect |-> a.retry_connect, retry_read |-> a.retry_read,
               retry_status |-> a.retry_status]
        self == NewObject(kind, a)
    IN  IF kind = "LinearRetry"
        THEN LinearRetry_init(self, a.backoff, a.retry_total,
                              a.retry_to_secondary, a.random_jitter_range, kw)
        ELSE IF kind = "ExponentialRetry"
        THEN ExponentialRetry_init(self, a.initial_backoff, a.increment_base,
                                   a.retry_total, a.retry_to_secondary,
                                   a.random_jitter_range, kw)
        ELSE TablesRetryPolicy_init(self, a.initial_backoff, a.increment_base,
                                    a.retry_total, a.retry_to_secondary,
                                    a.random_jitter_range, kw)

\* The values the parameters of the constructor of kind take when the call
\* gives no argument.
Defaults(kind) ==
    [initial_backoff |-> 15, increment_base |-> 3, backoff |-> 15,
     random_jitter_range |-> 3,
     retry_total |-> IF kind = "TablesRetryPolicy" THEN 10 ELSE 3,
     retry_connect |-> 3, retry_read |-> 3, retry_status |-> 3,
     retry_to_secondary |-> FALSE]

\* Constructor call `kind()` with no argument: every parameter takes its
\* default and **kwargs is empty.
ConstructDefault(kind) ==
    LET a == Defaults(kind)
        kw == [k \in {} |-> 0]
        self == NewObject(kind, a)
    IN  IF kind = "LinearRetry"
        THEN LinearRetry_init(self, a.backoff, a.retry_total,
                              a.retry_to_secondary, a.random_jitter_range, kw)
        ELSE IF kind = "ExponentialRetry"
        THEN ExponentialRetry_init(self, a.initial_backoff, a.increment_base,
                                   a.retry_total, a.retry_to_secondary,
                                   a.random_jitter_range, kw)
        ELSE TablesRetryPolicy_init(self, a.initial_backoff, a.increment_base,
                                    a.retry_total, a.retry_to_secondary,
                                    a.random_jitter_range, kw)

----------------------------------------------------------------------------
\* The retry protocol

\* dict.pop(key, default) / dict.get(key, default)
Pop(d, key, default) == IF key \in DOMAIN d THEN d[key] ELSE default

\* The dict after the keys in ks were popped.
Without(d, ks) == [k \in DOMAIN d \ ks |-> d[k]]

RetryOptionKeys ==
    {"retry_total", "retry_connect", "retry_read", "retry_status",
     "retry_to_secondary", "location_mode", "hosts", "retry_hook"}

\* hosts is a dict from location modes to host names; None is the empty dict
\* (both are falsy), "" is a host that is None or empty.
NoHosts == [m \in {} |-> ""]
NoHost == ""

\* hasattr(body, "read")
IsStream(body) == body.kind = "stream"

\* Variant: the count starts at 1.
configure_retries_count_from_one(self, opts, req) ==
    LET body_position ==
            IF IsStream(req.body)
            THEN IF req.body.tell_ok THEN req.body.pos ELSE None
            ELSE None
    IN  [total |-> Pop(opts, "retry_total", self.total_retries),
         connect |-> Pop(opts, "retry_connect", self.connect_retries),
         read |-> Pop(opts, "retry_read", self.read_retries),
         status |-> Pop(opts, "retry_status", self.status_retries),
         retry_secondary |-> Pop(opts, "retry_to_secondary", self.retry_to_secondary),
         mode |-> Pop(opts, "location_mode", PRIMARY),
         hosts |-> Pop(opts, "hosts", NoHosts),
         hook |-> Pop(opts, "retry_hook", FALSE),
         body_position |-> body_position,
         count |-> 1,
         history |-> <<>>]

configure_retries(self, opts, req) ==
    LET body_position ==
            IF IsStream(req.body)
            THEN IF req.body.tell_ok THEN req.body.pos ELSE None
            ELSE None
    IN  [total |-> Pop(opts, "retry_total", self.total_retries),
         connect |-> Pop(opts, "retry_connect", self.connect_retries),
         read |-> Pop(opts, "retry_read", self.read_retries),
         status |-> Pop(opts, "retry_status", self.status_retries),
         retry_secondary |-> Pop(opts, "retry_to_secondary", self.retry_to_secondary),
         mode |-> Pop(opts, "location_mode", PRIMARY),
         hosts |-> Pop(opts, "hosts", NoHosts),
         hook |-> Pop(opts, "retry_hook", FALSE),
         body_position |-> body_position,
         count |-> 0,
         history |-> <<>>]

\* A URL string is held as its components as written, plus the delimiters
\* that are written with nothing after them (marks, a subset of
\* {";", "?", "#"}).  With a network location the path is empty or starts
\* with "/".

\* str.lower() on the schemes of the model.
lower_scheme(scheme) == IF scheme = "HTTPS" THEN "https" ELSE scheme

\* urlparse(url): the six components; the scheme is lower-cased and a
\* delimiter with nothing after it leaves an empty component.
urlparse(url) ==
    [scheme |-> lower_scheme(url.scheme), netloc |-> url.netloc, path |-> url.path,
     params |-> url.params, query |-> url.query, fragment |-> url.fragment]

\* ParseResult._replace(netloc=...)
replace_netloc(parsed, netloc) == [parsed EXCEPT !.netloc = netloc]

\* Variant: the query is not written back.
geturl_without_query(parsed) ==
    [scheme |-> parsed.scheme, netloc |-> parsed.netloc, path |-> parsed.path,
     params |-> parsed.params, query |-> "", fragment |-> parsed.fragment,
     marks |-> {}]

\* ParseResult.geturl(): the string is put together from the components; a
\* delimiter is written only before a component that is not empty.
geturl(parsed) ==
    [scheme |-> parsed.scheme, netloc |-> parsed.netloc, path |-> parsed.path,
     params |-> parsed.params, query |-> parsed.query, fragment |-> parsed.fragment,
     marks |-> {}]

\* Variant: the location is switched without looking at the hosts.
set_next_host_location_unguarded(s, req) ==
    LET mode == IF s.mode = PRIMARY THEN SECONDARY ELSE PRIMARY
    IN  [settings |-> [s EXCEPT !.mode = mode],
         request |-> [req EXCEPT !.url =
                         geturl(replace_netloc(urlparse(req.url),
                                               Pop(s.hosts, mode, NoHost)))]]

\* Variant: the retry always goes to the secondary location.
set_next_host_location_secondary(s, req) ==
    IF DOMAIN s.hosts # {} /\ \A k \in DOMAIN s.hosts : s.hosts[k] # NoHost
    THEN [settings |-> [s EXCEPT !.mode = SECONDARY],
          request |-> [req EXCEPT !.url =
                         geturl(replace_netloc(urlparse(req.url),
                                               Pop(s.hosts, SECONDARY, NoHost)))]]
    ELSE [settings |-> s, request |-> req]

\* _set_next_host_location: the settings and the request after the call.
set_next_host_location(s, req) ==
    IF DOMAIN s.hosts # {} /\ \A k \in DOMAIN s.hosts : s.hosts[k] # NoHost
    THEN LET mode == IF s.mode = PRIMARY THEN SECONDARY ELSE PRIMARY
         IN  [settings |-> [s EXCEPT !.mode = mode],
              request |-> [req EXCEPT !.url =
                         geturl(replace_netloc(urlparse(req.url),
                                               Pop(s.hosts, mode, NoHost)))]]
    ELSE [settings |-> s, request |-> req]

\* An outcome of self.next.send: a response with a status, or a raised error.
IsError(o) == o.kind = "error"

RequestHistory(o) ==
    IF IsError(o) THEN [kind |-> "error", error |-> o.error]
    ELSE [kind |-> "response", status |-> o.status]

\* Variant: every error that is not a connect-phase error is handled as a
\* response-phase error.
count_down_any_error_as_read(s, o) ==
    LET s1 == [s EXCEPT !.total = @ - 1]
    IN  IF IsError(o) /\ o.error = ServiceRequestError
        THEN [s1 EXCEPT !.connect = @ - 1,
                        !.history = Append(@, RequestHistory(o))]
        ELSE IF IsError(o)
        THEN [s1 EXCEPT !.read = @ - 1,
                        !.history = Append(@, RequestHistory(o))]
        ELSE [s1 EXCEPT !.status = @ - 1,
                        !.history = Append(@, RequestHistory(o))]

\* Variant: the history is kept newest first.
count_down_newest_first(s, o) ==
    LET s1 == [s EXCEPT !.total = @ - 1]
    IN  IF IsError(o) /\ o.error = ServiceRequestError
        THEN [s1 EXCEPT !.connect = @ - 1,
                        !.history = <<RequestHistory(o)>> \o @]
        ELSE IF IsError(o) /\ o.error = ServiceResponseError
        THEN [s1 EXCEPT !.read = @ - 1,
                        !.history = <<RequestHistory(o)>> \o @]
        ELSE IF ~IsError(o)
        THEN [s1 EXCEPT !.status = @ - 1,
                        !.history = <<RequestHistory(o)>> \o @]
        ELSE s1

\* Variant: a retryable status is charged to the status budget only.
count_down_status_only(s, o) ==
    IF IsError(o) /\ o.error = ServiceRequestError
    THEN [s EXCEPT !.total = @ - 1, !.connect = @ - 1,
                   !.history = Append(@, RequestHistory(o))]
    ELSE IF IsError(o) /\ o.error = ServiceResponseError
    THEN [s EXCEPT !.total = @ - 1, !.read = @ - 1,
                   !.history = Append(@, RequestHistory(o))]
    ELSE IF ~IsError(o)
    THEN [s EXCEPT !.status = @ - 1,
                   !.history = Append(@, RequestHistory(o))]
    ELSE [s EXCEPT !.total = @ - 1]

\* Variant: a connect-phase error is charged to the read budget.
count_down_connect_as_read(s, o) ==
    LET s1 == [s EXCEPT !.total = @ - 1]
    IN  IF IsError(o) /\ o.error \in {ServiceRequestError, ServiceResponseError}
        THEN [s1 EXCEPT !.read = @ - 1,
                        !.history = Append(@, RequestHistory(o))]
        ELSE IF ~IsError(o)
        THEN [s1 EXCEPT !.status = @ - 1,
                        !.history = Append(@, RequestHistory(o))]
        ELSE s1

\* The counters and the history after the first half of increment.
count_down(s, o) ==
    LET s1 == [s EXCEPT !.total = @ - 1]
    IN  IF IsError(o) /\ o.error = ServiceRequestError
        THEN [s1 EXCEPT !.connect = @ - 1,
                        !.history = Append(@, RequestHistory(o))]
        ELSE IF IsError(o) /\ o.error = ServiceResponseError
        THEN [s1 EXCEPT !.read = @ - 1,
                        !.history = Append(@, RequestHistory(o))]
        ELSE IF ~IsError(o)
        THEN [s1 EXCEPT !.status = @ - 1,
                        !.history = Append(@, RequestHistory(o))]
        ELSE s1

\* Variant: no method is exempt from failover.
NoFailoverMethods_none == {}

\* The methods that are never sent to the other location.
NoFailoverMethods == {"PUT"}

\* Variants of increment.  need_position: a missing body_position stops the
\* retry; rewind: the stream is put back to body_position; count_final: the
\* count is raised for an attempt that is not retried, too.
increment_with(s, req, o, need_position, rewind, count_final) ==
    LET s1 == count_down(s, o)
        stop(sx, rx) ==
            [settings |-> IF count_final THEN [sx EXCEPT !.count = @ + 1] ELSE sx,
             request |-> rx, result |-> FALSE]
    IN  IF ~is_exhausted(s1)
        THEN LET moved == IF req.method \notin NoFailoverMethods /\ s1.retry_secondary
                          THEN set_next_host_location(s1, req)
                          ELSE [settings |-> s1, request |-> req]
                 s2 == moved.settings
                 r2 == moved.request
             IN  IF IsStream(r2.body)
                 THEN IF need_position /\ s2.body_position = None
                      THEN stop(s2, r2)
                      ELSE IF ~r2.body.seek_ok
                      THEN stop(s2, r2)
                      ELSE [settings |-> [s2 EXCEPT !.count = @ + 1],
                            request |-> IF rewind /\ s2.body_position # None
                                        THEN [r2 EXCEPT !.body.pos = s2.body_position]
                                        ELSE r2,
                            result |-> TRUE]
                 ELSE [settings |-> [s2 EXCEPT !.count = @ + 1],
                       request |-> r2, result |-> TRUE]
        ELSE stop(s1, req)

\* Variant: a stream whose position was not saved is retried all the same.
increment_without_position(s, req, o) == increment_with(s, req, o, FALSE, TRUE, FALSE)

\* Variant: the stream is not put back before the retry.
increment_without_rewind(s, req, o) == increment_with(s, req, o, TRUE, FALSE, FALSE)

\* Variant: the count is raised on every call, retry or not.
increment_counting_final(s, req, o) == increment_with(s, req, o, TRUE, TRUE, TRUE)

\* increment: the settings and the request after the call, and the value
\* returned (whether another attempt is to be made).
increment(s, req, o) ==
    LET s1 == count_down(s, o)
    IN  IF ~is_exhausted(s1)
        THEN LET moved == IF req.method \notin NoFailoverMethods /\ s1.retry_secondary
                          THEN set_next_host_location(s1, req)
                          ELSE [settings |-> s1, request |-> req]
                 s2 == moved.settings
                 r2 == moved.request
             IN  IF IsStream(r2.body)
                 THEN IF s2.body_position = None
                      THEN [settings |-> s2, request |-> r2, result |-> FALSE]
                      ELSE IF ~r2.body.seek_ok
                      THEN [settings |-> s2, request |-> r2, result |-> FALSE]
                      ELSE [settings |-> [s2 EXCEPT !.count = @ + 1],
                            request |-> [r2 EXCEPT !.body.pos = s2.body_position],
                            result |-> TRUE]
                 ELSE [settings |-> [s2 EXCEPT !.count = @ + 1],
                       request |-> r2, result |-> TRUE]
        ELSE [settings |-> s1, request |-> req, result |-> FALSE]

\* Variant: the hook is given the count as it is after the increment.
retry_hook_current_count(s) ==
    IF s.hook
    THEN <<[ev |-> "hook", retry_count |-> s.count, location_mode |-> s.mode]>>
    ELSE <<>>

\* retry_hook: the call made to the hook, if one is set.
retry_hook(s) ==
    IF s.hook
    THEN <<[ev |-> "hook", retry_count |-> s.count - 1, location_mode |-> s.mode]>>
    ELSE <<>>

\* sleep, for the value d drawn by get_backoff_time: the call to
\* transport.sleep, if any.
sleep(d) ==
    IF d = 0 \/ d < 0 THEN <<>> ELSE <<[ev |-> "sleep", delay |-> d]>>

----------------------------------------------------------------------------
\* Initial states: a constructed policy and a request about to be sent

PrimaryHost == "primary.example"
SecondaryHost == "secondary.example"
OtherHost == "other.example"

PrimaryOnly == [m \in {PRIMARY} |-> PrimaryHost]
BothHosts == [m \in LocationMode |-> IF m = PRIMARY THEN PrimaryHost ELSE SecondaryHost]

Url(netloc) ==
    [scheme |-> "https", netloc |-> netloc, path |-> "/table", params |-> "",
     query |-> "a=1", fragment |-> "", marks |-> {}]

\* URLs written in other ways: an upper-case scheme, no path, parameters,
\* a fragment, delimiters with nothing after them.
UrlShapes(netloc) ==
    {Url(netloc),
     [Url(netloc) EXCEPT !.scheme = "HTTPS", !.marks = {"#"}],
     [Url(netloc) EXCEPT !.query = "", !.marks = {"?"}],
     [Url(netloc) EXCEPT !.params = "p", !.fragment = "f"],
     [Url(netloc) EXCEPT !.query = "", !.marks = {";", "?", "#"}],
     [Url(netloc) EXCEPT !.path = "", !.query = ""]}

NoBody == [kind |-> "none", pos |-> 0, tell_ok |-> FALSE, seek_ok |-> FALSE]
BytesBody == [kind |-> "bytes", pos |-> 0, tell_ok |-> FALSE, seek_ok |-> FALSE]
StreamBody(pos, tell_ok, seek_ok) ==
    [kind |-> "stream", pos |-> pos, tell_ok |-> tell_ok, seek_ok |-> seek_ok]

Args(ib, base, bo, jitter, total, connect, read, status, secondary) ==
    [initial_backoff |-> ib, increment_base |-> base, backoff |-> bo,
     random_jitter_range |-> jitter, retry_total |-> total,
     retry_connect |-> connect, retry_read |-> read, retry_status |-> status,
     retry_to_secondary |-> secondary]

Resp(status) == [kind |-> "response", status |-> status]
Err(error) == [kind |-> "error", error |-> error]

\* Everything the next pipeline stage can answer with.
AllOutcomes ==
    {Resp(200), Resp(404), Resp(500)}
    \cup {Err(e) : e \in AzureErrors \cup {OtherException}}

Methods == {"GET", "PUT", "POST", "DELETE", "PATCH", "MERGE"}

\* The variables that are the same in every initial state.
InitRest ==
    /\ settings = NoSettings
    /\ pc = "init"
    /\ response = NoResponse
    /\ raised = "none"
    /\ trace = <<>>
    /\ calc = Idle
    /\ calls = [cur |-> 1, given |-> <<options>>, parked |-> NoCall]
    /\ storage_hosts = [hosts |-> Pop(options, "hosts", NoHosts)]

\* Budgets: every combination of the four retry budgets, for a GET request
\* without failover, against a next stage that can answer with anything.
InitBudgets ==
    /\ \E total \in 0 .. MaxTotal : \E connect, read, status \in 0 .. MaxSub :
         policy = Construct("TablesRetryPolicy",
                     Args(15, 3, 15, 0, total, connect, read, status, FALSE))
    /\ \E mode \in LocationMode :
         /\ options = [location_mode |-> mode, hosts |-> BothHosts]
         /\ request = [method |-> "GET", url |-> Url(BothHosts[mode]), body |-> NoBody]
    /\ next_stage = AllOutcomes
    /\ InitRest

\* Failover: every method, with and without retry_to_secondary, with the
\* hosts mapping absent, complete, holding an empty secondary, or holding
\* the primary only, and a request URL that is or is not the host of its
\* location mode.
InitFailover ==
    /\ \E secondary \in BOOLEAN :
         policy = Construct("TablesRetryPolicy",
                     Args(15, 3, 15, 0, 2, 2, 2, 2, secondary))
    /\ \E hosts \in {NoHosts, BothHosts, [BothHosts EXCEPT ![SECONDARY] = NoHost],
                     PrimaryOnly} :
       \E modes \in {{}, {PRIMARY}, {SECONDARY}} :
         options = [k \in {"hosts"} \cup {"location_mode" : m \in modes} |->
                      IF k = "hosts" THEN hosts ELSE CHOOSE m \in modes : TRUE]
    /\ \E method \in Methods : \E netloc \in {PrimaryHost, SecondaryHost, OtherHost} :
       \E body \in {NoBody, StreamBody(0, FALSE, FALSE)} :
         request = [method |-> method, url |-> Url(netloc), body |-> body]
    /\ next_stage = {Resp(200), Resp(404), Resp(500), Err(ServiceRequestError)}
    /\ InitRest

\* Bodies: every kind of request body, with a hook, with and without failover.
InitBodies ==
    /\ \E secondary \in BOOLEAN :
         policy = Construct("TablesRetryPolicy",
                     Args(15, 3, 15, 0, 2, 2, 2, 2, secondary))
    /\ options = [location_mode |-> PRIMARY, hosts |-> BothHosts, retry_hook |-> TRUE]
    /\ \E body \in {NoBody, BytesBody}
                   \cup {StreamBody(pos, t, k) : pos \in 0 .. BodyLen - 1,
                                                 t \in BOOLEAN, k \in BOOLEAN} :
         request = [method |-> "POST", url |-> Url(PrimaryHost), body |-> body]
    /\ next_stage = {Resp(200), Resp(500), Err(ServiceResponseError)}
    /\ InitRest

\* Delays: the three policy classes, constructed with different backoff
\* arguments, against a next stage that answers 200 or 500.
InitDelays ==
    /\ \E kind \in {"TablesRetryPolicy", "ExponentialRetry", "LinearRetry"} :
       \E ib \in {0, 15} : \E jitter \in {0, 3} :
         policy = Construct(kind, Args(ib, 3, ib, jitter, 3, 3, 3, 3, FALSE))
    /\ options = [location_mode |-> PRIMARY, hosts |-> BothHosts]
    /\ request = [method |-> "GET", url |-> Url(PrimaryHost), body |-> NoBody]
    /\ next_stage = {Resp(200), Resp(500)}
    /\ InitRest

\* URLs: requests whose URL is written in different ways, with failover.
InitUrls ==
    /\ policy = Construct("TablesRetryPolicy", Args(15, 3, 15, 0, 3, 3, 3, 3, TRUE))
    /\ \E hosts \in {BothHosts, PrimaryOnly} :
         options = [location_mode |-> PRIMARY, hosts |-> hosts]
    /\ \E url \in UrlShapes(PrimaryHost) : \E method \in {"GET", "PUT"} :
         request = [method |-> method, url |-> url, body |-> NoBody]
    /\ next_stage = {Resp(200), Resp(500)}
    /\ InitRest

\* Signed budgets: policies constructed with negative, zero and positive
\* budgets, against a next stage that can answer with anything.
InitSigned ==
    /\ \E total \in -MaxDeficit .. MaxDeficit + 1 :
       \E connect, read, status \in -MaxDeficit .. 1 :
         policy = Construct("TablesRetryPolicy",
                     Args(15, 3, 15, 0, total, connect, read, status, FALSE))
    /\ options = [location_mode |-> PRIMARY, hosts |-> BothHosts]
    /\ request = [method |-> "GET", url |-> Url(PrimaryHost), body |-> NoBody]
    /\ next_stage = AllOutcomes
    /\ InitRest

\* Defaults: the three policy classes constructed without arguments, against
\* a next stage whose failures are all of one class.
InitDefaults ==
    /\ \E kind \in {"TablesRetryPolicy", "ExponentialRetry", "LinearRetry"} :
         policy = ConstructDefault(kind)
    /\ options = [location_mode |-> PRIMARY, hosts |-> BothHosts]
    /\ \E body \in {NoBody, BytesBody} :
         request = [method |-> "GET", url |-> Url(PrimaryHost), body |-> body]
    /\ \E fail \in {Resp(500), Err(ServiceRequestError), Err(ServiceResponseError)} :
         next_stage = {fail}
    /\ InitRest

Init == InitDefaults \/ InitBudgets \/ InitFailover \/ InitBodies \/ InitDelays \/ InitUrls

----------------------------------------------------------------------------
\* TablesRetryPolicy.send

\* Variant: the budgets a request is started with are kept on the policy.
SendBegin_kept_on_self ==
    /\ pc = "init"
    /\ settings' = configure_retries(policy, options, request)
    /\ policy' = [policy EXCEPT !.total_retries = settings'.total,
                                !.status_retries = settings'.status,
                                !.retry_to_secondary = settings'.retry_secondary]
    /\ options' = Without(options, RetryOptionKeys)
    /\ pc' = "loop"
    /\ UNCHANGED <<request, response, raised, trace, next_stage, calc, calls,
                   storage_hosts>>

\* send, up to the while loop.
SendBegin ==
    /\ pc = "init"
    /\ settings' = configure_retries(policy, options, request)
    /\ options' = Without(options, RetryOptionKeys)
    /\ pc' = "loop"
    /\ UNCHANGED <<policy, request, response, raised, trace, next_stage, calc, calls,
                   storage_hosts>>

\* What one call of self.next.send is observed to be sent with.
SendEvent(o) ==
    [ev |-> "send", url |-> request.url, mode |-> settings.mode,
     count |-> settings.count, pos |-> request.body.pos, outcome |-> o]

\* The request after the next stage has read some of a stream body.
Consumed(req, pos) == [req EXCEPT !.body.pos = pos]

ReadTo(req) == IF IsStream(req.body) THEN req.body.pos .. BodyLen ELSE {req.body.pos}

\* Variant: the history is attached to every returned response.
Returned_always_history(s, status) ==
    [status |-> status, location_mode |-> s.mode,
     has_history |-> TRUE, history |-> s.history]

\* Lines 631-634: the response as send returns it.
Returned(s, status) ==
    [status |-> status, location_mode |-> s.mode,
     has_history |-> s.history # <<>>, history |-> s.history]

\* A loop iteration whose response is not retryable: break and return.
AttemptFinal ==
    /\ pc = "loop"
    /\ \E o \in next_stage : \E pos \in ReadTo(request) :
         /\ ~IsError(o)
         /\ ~is_retry(o.status, settings.mode)
         /\ request' = Consumed(request, pos)
         /\ trace' = Append(trace, SendEvent(o))
         /\ response' = Returned(settings, o.status)
         /\ pc' = "returned"
    /\ UNCHANGED <<policy, options, settings, raised, next_stage, calc, calls,
                   storage_hosts>>

\* Variant: when the retries stop on an error, the error is dropped and the
\* call returns.
AfterIncrement_swallow(o, inc) ==
    /\ settings' = inc.settings
    /\ request' = inc.request
    /\ IF inc.result
       THEN /\ \E d \in get_backoff_time(policy, inc.settings) :
                 trace' = Append(trace, SendEvent(o)) \o retry_hook(inc.settings)
                            \o sleep(d)
            /\ pc' = "loop"
            /\ UNCHANGED <<response, raised>>
       ELSE /\ trace' = Append(trace, SendEvent(o))
            /\ response' = Returned(inc.settings, IF IsError(o) THEN 0 ELSE o.status)
            /\ pc' = "returned"
            /\ UNCHANGED raised

\* What follows a failed attempt o, inc being the result of increment:
\* hook, sleep and continue, or leave the loop.
AfterIncrement(o, inc) ==
    /\ settings' = inc.settings
    /\ request' = inc.request
    /\ IF inc.result
       THEN /\ \E d \in get_backoff_time(policy, inc.settings) :
                 trace' = Append(trace, SendEvent(o)) \o retry_hook(inc.settings)
                            \o sleep(d)
            /\ pc' = "loop"
            /\ UNCHANGED <<response, raised>>
       ELSE /\ trace' = Append(trace, SendEvent(o))
            /\ IF IsError(o)
               THEN /\ raised' = o.error
                    /\ pc' = "raised"
                    /\ UNCHANGED response
               ELSE /\ response' = Returned(inc.settings, o.status)
                    /\ pc' = "returned"
                    /\ UNCHANGED raised

\* A loop iteration whose response is retryable.
AttemptRetryable ==
    /\ pc = "loop"
    /\ \E o \in next_stage : \E pos \in ReadTo(request) :
         /\ ~IsError(o)
         /\ is_retry(o.status, settings.mode)
         /\ AfterIncrement(o, increment(settings, Consumed(request, pos), o))
    /\ UNCHANGED <<policy, options, next_stage, calc, calls,
                   storage_hosts>>

\* A loop iteration in which self.next.send raises an AzureError.
AttemptAzureError ==
    /\ pc = "loop"
    /\ \E o \in next_stage : \E pos \in ReadTo(request) :
         /\ IsError(o)
         /\ o.error \in AzureErrors
         /\ AfterIncrement(o, increment(settings, Consumed(request, pos), o))
    /\ UNCHANGED <<policy, options, next_stage, calc, calls,
                   storage_hosts>>

\* A loop iteration in which self.next.send raises anything else: the
\* exception leaves send.
AttemptOtherError ==
    /\ pc = "loop"
    /\ \E o \in next_stage : \E pos \in ReadTo(request) :
         /\ IsError(o)
         /\ o.error \notin AzureErrors
         /\ request' = Consumed(request, pos)
         /\ trace' = Append(trace, SendEvent(o))
         /\ raised' = o.error
         /\ pc' = "raised"
    /\ UNCHANGED <<policy, options, settings, response, next_stage, calc, calls,
                   storage_hosts>>

Next ==
    \/ SendBegin
    \/ AttemptFinal
    \/ AttemptRetryable
    \/ AttemptAzureError
    \/ AttemptOtherError

Spec == Init /\ [][Next]_vars

\* send goes on as long as it has a step to take: each loop iteration ends.
SpecLive == InitSigned /\ [][Next]_vars /\ WF_vars(Next)

----------------------------------------------------------------------------
\* Two calls of send on one policy instance, on two threads

\* The state of the running call: its request, its retry_settings and
\* response (locals of send) and where it is.
Running ==
    [options |-> options, request |-> request, settings |-> settings,
     pc |-> pc, response |-> response, raised |-> raised, trace |-> trace]

\* A request that has not been sent yet.
NewCall(opts, req) ==
    [options |-> opts, request |-> req, settings |-> NoSettings,
     pc |-> "init", response |-> NoResponse, raised |-> "none", trace |-> <<>>]

\* One policy, two requests: the second one passes per-request overrides.
InitTwoCalls ==
    /\ policy = Construct("TablesRetryPolicy", Args(15, 3, 15, 0, 2, 2, 2, 2, TRUE))
    /\ options = [location_mode |-> PRIMARY, hosts |-> BothHosts]
    /\ request = [method |-> "GET", url |-> Url(PrimaryHost), body |-> NoBody]
    /\ \E total \in 0 .. 1 : \E secondary \in BOOLEAN :
         LET o2 == [location_mode |-> SECONDARY, hosts |-> BothHosts,
                    retry_total |-> total, retry_status |-> 1,
                    retry_to_secondary |-> secondary]
             r2 == [method |-> "POST", url |-> Url(SecondaryHost), body |-> NoBody]
         IN  calls = [cur |-> 1, given |-> <<options, o2>>,
                      parked |-> NewCall(o2, r2)]
    /\ next_stage = {Resp(200), Resp(500), Err(ServiceRequestError),
                     Err(OtherException)}
    /\ settings = NoSettings
    /\ pc = "init"
    /\ response = NoResponse
    /\ raised = "none"
    /\ trace = <<>>
    /\ calc = Idle
    /\ storage_hosts = [hosts |-> BothHosts]

\* The scheduler takes the running thread off and runs the other one.
Switch ==
    /\ calls.parked # NoCall
    /\ calls' = [calls EXCEPT !.cur = 3 - @, !.parked = Running]
    /\ options' = calls.parked.options
    /\ request' = calls.parked.request
    /\ settings' = calls.parked.settings
    /\ pc' = calls.parked.pc
    /\ response' = calls.parked.response
    /\ raised' = calls.parked.raised
    /\ trace' = calls.parked.trace
    /\ UNCHANGED <<policy, next_stage, calc, storage_hosts>>

NextTwo ==
    \/ Switch
    \/ SendBegin
    \/ AttemptFinal
    \/ AttemptRetryable
    \/ AttemptAzureError
    \/ AttemptOtherError

SpecTwo == InitTwoCalls /\ [][NextTwo]_vars

----------------------------------------------------------------------------
\* StorageHosts.on_request, which runs before TablesRetryPolicy.send

\* No use_location was given (None).
NoLocation == ""

\* d[key] = value
SetItem(d, key, value) ==
    [k \in DOMAIN d \cup {key} |-> IF k = key THEN value ELSE d[k]]

\* The location mode on_request detects from the URL: PRIMARY, replaced by
\* the key of hosts whose host is the network location (the hosts of one
\* mapping are different, so at most one key is).
DetectedLocation(hosts, netloc) ==
    IF SECONDARY \in DOMAIN hosts /\ hosts[SECONDARY] = netloc
    THEN SECONDARY ELSE PRIMARY

\* StorageHosts.on_request: the options and the request after the call, and
\* whether it raised ValueError.
on_request(self, opts, req) ==
    LET o1 == SetItem(opts, "hosts", self.hosts)
        parsed_url == urlparse(req.url)
        detected == DetectedLocation(self.hosts, parsed_url.netloc)
        use_location == Pop(o1, "use_location", NoLocation)
        o2 == Without(o1, {"use_location"})
    IN  IF use_location # NoLocation
        THEN LET o3 == SetItem(o2, "retry_to_secondary", FALSE)
             IN  IF use_location \notin DOMAIN self.hosts
                 THEN [options |-> o3, request |-> req, raises |-> TRUE]
                 ELSE IF use_location # detected
                 THEN [options |-> SetItem(o3, "location_mode", use_location),
                       request |-> [req EXCEPT !.url =
                                      geturl(replace_netloc(parsed_url,
                                                            self.hosts[use_location]))],
                       raises |-> FALSE]
                 ELSE [options |-> SetItem(o3, "location_mode", detected),
                       request |-> req, raises |-> FALSE]
        ELSE [options |-> SetItem(o2, "location_mode", detected),
              request |-> req, raises |-> FALSE]

\* A request about to enter the pipeline, with or without use_location, for
\* a URL that is or is not one of the hosts.
InitHosts ==
    /\ \E secondary \in BOOLEAN :
         policy = Construct("TablesRetryPolicy",
                     Args(15, 3, 15, 0, 2, 2, 2, 2, secondary))
    /\ \E hosts \in {BothHosts, PrimaryOnly, [BothHosts EXCEPT ![SECONDARY] = NoHost]} :
         storage_hosts = [hosts |-> hosts]
    /\ \E uses \in {{}, {PRIMARY}, {SECONDARY}} :
         options = [k \in {"use_location" : u \in uses} |-> CHOOSE u \in uses : TRUE]
    /\ \E method \in {"GET", "PUT"} :
       \E netloc \in {PrimaryHost, SecondaryHost, OtherHost} :
         request = [method |-> method, url |-> Url(netloc), body |-> NoBody]
    /\ next_stage = {Resp(200), Resp(404), Resp(500), Err(ServiceRequestError),
                     Err(OtherException)}
    /\ settings = NoSettings
    /\ pc = "request"
    /\ response = NoResponse
    /\ raised = "none"
    /\ trace = <<>>
    /\ calc = Idle
    /\ calls = [cur |-> 1, given |-> <<options>>, parked |-> NoCall]

\* The pipeline runs StorageHosts.on_request on the request; if it raises,
\* the request is not sent.
OnRequest ==
    /\ pc = "request"
    /\ LET r == on_request(storage_hosts, options, request)
       IN  /\ options' = r.options
           /\ request' = r.request
           /\ IF r.raises
              THEN pc' = "rejected" /\ raised' = "ValueError"
              ELSE pc' = "init" /\ UNCHANGED raised
    /\ UNCHANGED <<policy, settings, response, trace, next_stage, calc, calls,
                   storage_hosts>>

NextHosts ==
    \/ OnRequest
    \/ SendBegin
    \/ AttemptFinal
    \/ AttemptRetryable
    \/ AttemptAzureError
    \/ AttemptOtherError

SpecHosts == InitHosts /\ [][NextHosts]_vars

----------------------------------------------------------------------------
\* _validate_input (azure/ai/textanalytics/_request_handlers.py)

\* Python None in a slot that otherwise holds a string.
NoneStr == "<None>"

\* A Python value with its type: a str carries its characters, a dict its
\* entries (a function from its keys), the model classes their attributes.
PyNone == [type |-> "NoneType"]
PyStr(chars) == [type |-> "str", chars |-> chars]
PyDict(entries) == [type |-> "dict", entries |-> entries]
PyList(items) == [type |-> "list", items |-> items]
PyInt == [type |-> "int"]

TextDocumentInput(id, language, text) ==
    [type |-> "TextDocumentInput", id |-> id, language |-> language, text |-> text]

DetectLanguageInput(id, country_hint, text) ==
    [type |-> "DetectLanguageInput", id |-> id, country_hint |-> country_hint,
     text |-> text]

isinstance(x, types) == x.type \in types

\* bool(documents) for the values of the model.
Truthy(x) ==
    IF x.type = "NoneType" THEN FALSE
    ELSE IF x.type = "str" THEN x.chars # ""
    ELSE IF x.type = "dict" THEN DOMAIN x.entries # {}
    ELSE IF x.type = "list" THEN x.items # <<>>
    ELSE TRUE

\* str.lower() on the hints of the model.
lower(h) == IF h \in {"none", "None", "NONE"} THEN "none"
            ELSE IF h = "US" THEN "us" ELSE h

\* str(idx) for the indices of the model.
str(idx) == <<"0", "1", "2", "3", "4">>[idx + 1]

\* The dict {"id": id, hint: value, "text": text}.
HintedDict(id, hint, value, text) ==
    PyDict([k \in {"id", hint, "text"} |->
              IF k = "id" THEN id ELSE IF k = hint THEN value ELSE text])

\* The for loop of _validate_input from index idx on (idx counts from 0):
\* the entries appended to request_batch.
RECURSIVE request_batch(_, _, _, _)
request_batch(documents, idx, hint, whole_input_hint) ==
    IF idx >= Len(documents) THEN <<>>
    ELSE
      LET doc == documents[idx + 1]
          whole == IF isinstance(doc, {"str"}) /\ hint = "country_hint"
                      /\ lower(whole_input_hint) = "none"
                   THEN "" ELSE whole_input_hint
          as_str ==
              IF isinstance(doc, {"str"})
              THEN <<HintedDict(str(idx), hint, whole, doc.chars)>>
              ELSE <<>>
          as_dict ==
              IF isinstance(doc, {"dict"})
              THEN LET item_hint == Pop(doc.entries, hint, NoneStr)
                       id == Pop(doc.entries, "id", NoneStr)
                       text == Pop(doc.entries, "text", NoneStr)
                   IN  IF item_hint = NoneStr
                       THEN <<HintedDict(id, hint, whole, text)>>
                       ELSE IF lower(item_hint) = "none"
                       THEN <<HintedDict(id, hint, "", text)>>
                       ELSE <<doc>>
              ELSE <<>>
          as_text_document ==
              IF isinstance(doc, {"TextDocumentInput"})
              THEN IF doc.language = NoneStr
                   THEN <<TextDocumentInput(doc.id, whole, doc.text)>>
                   ELSE <<doc>>
              ELSE <<>>
          as_detect_language ==
              IF isinstance(doc, {"DetectLanguageInput"})
              THEN IF doc.country_hint = NoneStr
                   THEN <<DetectLanguageInput(doc.id, whole, doc.text)>>
                   ELSE IF lower(doc.country_hint) = "none"
                   THEN <<DetectLanguageInput(doc.id, "", doc.text)>>
                   ELSE <<doc>>
              ELSE <<>>
      IN  as_str \o as_dict \o as_text_document \o as_detect_language
            \o request_batch(documents, idx + 1, hint, whole)

\* all(isinstance(x, types) for x in documents)
AllInstances(documents, types) ==
    \A i \in 1 .. Len(documents) : isinstance(documents[i], types)

Raise(error) == [raises |-> error]
Return(value) == [raises |-> "none", value |-> value]

\* Variant: a list is accepted whatever its items are.
validate_input_unchecked(documents, hint, whole_input_hint) ==
    IF ~Truthy(documents) THEN Raise("ValueError")
    ELSE IF isinstance(documents, {"str"}) THEN Raise("TypeError")
    ELSE IF isinstance(documents, {"dict"}) THEN Raise("TypeError")
    ELSE Return(request_batch(documents.items, 0, hint, whole_input_hint))

validate_input(documents, hint, whole_input_hint) ==
    IF ~Truthy(documents) THEN Raise("ValueError")
    ELSE IF isinstance(documents, {"str"}) THEN Raise("TypeError")
    ELSE IF isinstance(documents, {"dict"}) THEN Raise("TypeError")
    ELSE IF /\ ~AllInstances(documents.items, {"str"})
            /\ ~AllInstances(documents.items,
                             {"dict", "TextDocumentInput", "DetectLanguageInput"})
    THEN Raise("TypeError")
    ELSE Return(request_batch(documents.items, 0, hint, whole_input_hint))

\* The items a list of documents is drawn from.
Items ==
    {PyStr("a"), PyStr("b"), PyInt,
     PyDict([id |-> "7", text |-> "c"]),
     PyDict([id |-> "8", text |-> "d", language |-> "fr"]),
     PyDict([id |-> "9", text |-> "e", country_hint |-> "None"]),
     PyDict([text |-> "f", country_hint |-> "CA"]),
     TextDocumentInput("10", NoneStr, "g"),
     TextDocumentInput("11", "es", "h"),
     DetectLanguageInput("12", NoneStr, "i"),
     DetectLanguageInput("13", "NONE", "j"),
     DetectLanguageInput("14", "GB", "k")}

RECURSIVE Lists(_)
Lists(n) ==
    IF n = 0 THEN {<<>>}
    ELSE LET shorter == Lists(n - 1)
         IN  shorter \cup {Append(l, x) : l \in {m \in shorter : Len(m) = n - 1},
                                          x \in Items}

\* The values passed as documents.
Documents ==
    {PyNone, PyStr(""), PyStr("a"), PyDict([k \in {} |-> ""]),
     PyDict([id |-> "7", text |-> "c"])}
    \cup {PyList(l) : l \in Lists(MaxDocs)}

----------------------------------------------------------------------------
\* Evaluations of the pure functions on drawn arguments, one per behaviour

\* A policy object whose attributes were assigned directly.
WithAttrs(kind, ib, base, bo, jitter) ==
    [NewObject(kind, Idle) EXCEPT
        !.initial_backoff = ib, !.increment_base = base, !.backoff = bo,
        !.random_jitter_range = jitter]

InitPure ==
    /\ policy = Construct("ExponentialRetry", Args(15, 3, 15, 3, 3, 3, 3, 3, FALSE))
    /\ options = [location_mode |-> PRIMARY, hosts |-> BothHosts]
    /\ request = [method |-> "GET", url |-> Url(PrimaryHost), body |-> NoBody]
    /\ next_stage = AllOutcomes
    /\ InitRest

EvalIsRetry ==
    /\ calc = Idle
    /\ \E status \in 100 .. MaxStatus : \E mode \in LocationMode :
         calc' = [fn |-> "is_retry", status |-> status, mode |-> mode,
                  result |-> is_retry(status, mode)]
    /\ UNCHANGED <<policy, options, request, settings, pc, response, raised,
                   trace, next_stage, calls, storage_hosts>>

EvalIsExhausted ==
    /\ calc = Idle
    /\ \E total, connect, read, status \in -BudgetSpan .. BudgetSpan :
         LET s == [total |-> total, connect |-> connect, read |-> read,
                   status |-> status]
         IN  calc' = [fn |-> "is_exhausted", settings |-> s,
                      result |-> is_exhausted(s)]
    /\ UNCHANGED <<policy, options, request, settings, pc, response, raised,
                   trace, next_stage, calls, storage_hosts>>

EvalExponential ==
    /\ calc = Idle
    /\ \E kind \in {"TablesRetryPolicy", "ExponentialRetry"} :
       \E ib \in 0 .. MaxBackoff : \E base \in 0 .. MaxBase :
       \E count \in 0 .. MaxCount : \E jitter \in 0 .. MaxJitter :
         LET p == WithAttrs(kind, ib, base, 0, jitter)
         IN  \E d \in get_backoff_time(p, [count |-> count]) :
               calc' = [fn |-> "exponential", kind |-> kind,
                        initial_backoff |-> ib, increment_base |-> base,
                        count |-> count, jitter |-> jitter,
                        backoff |-> exponential_backoff(p, count),
                        result |-> d]
    /\ UNCHANGED <<policy, options, request, settings, pc, response, raised,
                   trace, next_stage, calls, storage_hosts>>

EvalLinear ==
    /\ calc = Idle
    /\ \E bo \in 0 .. MaxBackoff : \E count \in 0 .. MaxCount :
       \E jitter \in 0 .. MaxJitter :
         LET p == WithAttrs("LinearRetry", 15, 3, bo, jitter)
         IN  \E d \in get_backoff_time(p, [count |-> count]) :
               calc' = [fn |-> "linear", kind |-> "LinearRetry", count |-> count,
                        jitter |-> jitter, backoff |-> bo, result |-> d]
    /\ UNCHANGED <<policy, options, request, settings, pc, response, raised,
                   trace, next_stage, calls, storage_hosts>>

\* _check_string_index_type_arg: the string index type a request is sent
\* with.  None is NoneStr; an argument that is given may be the empty string.
\* Variant: an argument counts as given when it is truthy.
check_string_index_type_arg_truthy(string_index_type_arg, api_version, string_index_type_default) ==
    IF api_version = "v3.0"
    THEN IF string_index_type_arg \notin {NoneStr, ""}
         THEN Raise("ValueError")
         ELSE Return(NoneStr)
    ELSE IF string_index_type_arg \in {NoneStr, ""}
         THEN Return(string_index_type_default)
         ELSE Return(string_index_type_arg)

check_string_index_type_arg(string_index_type_arg, api_version, string_index_type_default) ==
    IF api_version = "v3.0"
    THEN IF string_index_type_arg # NoneStr
         THEN Raise("ValueError")
         ELSE Return(NoneStr)
    ELSE IF string_index_type_arg = NoneStr
         THEN Return(string_index_type_default)
         ELSE Return(string_index_type_arg)

StringIndexTypes == {"UnicodeCodePoint", "TextElement_v8", "Utf16CodeUnit"}
ApiVersions == {"v3.0", "v3.1", "v3.2-preview.2", "V3.0", ""}

EvalCheckStringIndexType ==
    /\ calc = Idle
    /\ \E string_index_type_arg \in StringIndexTypes \cup {NoneStr, ""} :
       \E api_version \in ApiVersions :
       \E string_index_type_default \in StringIndexTypes \cup {NoneStr} :
         calc' = [fn |-> "_check_string_index_type_arg",
                  string_index_type_arg |-> string_index_type_arg,
                  api_version |-> api_version,
                  string_index_type_default |-> string_index_type_default,
                  result |-> check_string_index_type_arg(string_index_type_arg,
                                 api_version, string_index_type_default)]
    /\ UNCHANGED <<policy, options, request, settings, pc, response, raised,
                   trace, next_stage, calls, storage_hosts>>

EvalValidateInput ==
    /\ calc = Idle
    /\ \E documents \in Documents :
       \E hint \in {"language", "country_hint"} :
       \E whole_input_hint \in {"US", "en", "none", "NONE"} :
         calc' = [fn |-> "_validate_input", documents |-> documents,
                  hint |-> hint, whole_input_hint |-> whole_input_hint,
                  result |-> validate_input(documents, hint, whole_input_hint)]
    /\ UNCHANGED <<policy, options, request, settings, pc, response, raised,
                   trace, next_stage, calls, storage_hosts>>

NextPure ==
    \/ EvalValidateInput
    \/ EvalCheckStringIndexType
    \/ EvalIsRetry
    \/ EvalIsExhausted
    \/ EvalExponential
    \/ EvalLinear

SpecPure == InitPure /\ [][NextPure]_vars

----------------------------------------------------------------------------
\* StorageContentValidation: the policy that runs before the retry policy and
\* puts the MD5 of the request body into a header.

\* The bytes of a body: byte i of every body is i.
Content == [i \in 1 .. BodyLen |-> i]

\* data.read(4096) is asked for this many bytes at a time.
ChunkSize == 4096

\* hashlib.md5 and encode_base64, each by the bytes it was given.
md5(bytes) == [md5 |-> bytes]
encode_base64(digest) == [base64 |-> digest]

\* for chunk in iter(lambda: data.read(4096), b""): the chunks read from
\* offset pos on, one after the other, until read returns no byte.
RECURSIVE read_chunks(_)
read_chunks(pos) ==
    LET left == BodyLen - pos
        n == IF left < ChunkSize THEN left ELSE ChunkSize
    IN  IF n <= 0 THEN <<>>
        ELSE SubSeq(Content, pos + 1, pos + n) \o read_chunks(pos + n)

\* Where a stream is after it was read to its end from offset pos.
AtEnd(pos) == IF pos < BodyLen THEN BodyLen ELSE pos

\* Variant: the stream is left where the reading ended.
get_content_md5_no_seek(data) ==
    IF data.kind = "bytes" THEN [result |-> Return(md5(Content)), data |-> data]
    ELSE IF IsStream(data)
    THEN IF data.seek_ok
         THEN [result |-> Return(md5(read_chunks(data.pos))),
               data |-> [data EXCEPT !.pos = AtEnd(data.pos)]]
         ELSE [result |-> Raise("ValueError"),
               data |-> [data EXCEPT !.pos = AtEnd(data.pos)]]
    ELSE [result |-> Raise("ValueError"), data |-> data]

\* get_content_md5: the digest, or the error raised, and the data as the call
\* leaves it.  pos is 0 when tell() raises; the stream is read to its end and
\* then sought back to pos, and a seek that raises becomes a ValueError.
get_content_md5(data) ==
    IF data.kind = "bytes" THEN [result |-> Return(md5(Content)), data |-> data]
    ELSE IF IsStream(data)
    THEN LET pos == IF data.tell_ok THEN data.pos ELSE 0
         IN  IF data.seek_ok
             THEN [result |-> Return(md5(read_chunks(data.pos))),
                   data |-> [data EXCEPT !.pos = pos]]
             ELSE [result |-> Raise("ValueError"),
                   data |-> [data EXCEPT !.pos = AtEnd(data.pos)]]
    ELSE [result |-> Raise("ValueError"), data |-> data]

\* StorageContentValidation.header_name
header_name == "Content-MD5"

\* A request with a body of every kind and the validate_content option
\* absent, false or true, before StorageContentValidation has seen it.
InitContent ==
    /\ \E secondary \in BOOLEAN :
         policy = Construct("TablesRetryPolicy",
                     Args(15, 3, 15, 0, 2, 2, 2, 2, secondary))
    /\ \E given \in SUBSET {"validate_content"} : \E validate_content \in BOOLEAN :
         options = [k \in {"location_mode", "hosts"} \cup given |->
                       IF k = "location_mode" THEN PRIMARY
                       ELSE IF k = "hosts" THEN BothHosts
                       ELSE validate_content]
    /\ \E method \in {"GET", "POST"} :
       \E body \in {NoBody, BytesBody}
                   \cup {StreamBody(pos, t, k) : pos \in 0 .. BodyLen,
                                                 t \in BOOLEAN, k \in BOOLEAN} :
         request = [method |-> method, url |-> Url(PrimaryHost), body |-> body,
                    headers |-> <<>>, context |-> <<>>]
    /\ next_stage = {Resp(200), Resp(500), Err(ServiceResponseError),
                     Err(OtherException)}
    /\ settings = NoSettings
    /\ pc = "validate"
    /\ response = NoResponse
    /\ raised = "none"
    /\ trace = <<>>
    /\ calc = Idle
    /\ calls = [cur |-> 1, given |-> <<options>>, parked |-> NoCall]
    /\ storage_hosts = [hosts |-> BothHosts]

\* StorageContentValidation.on_request; calc keeps the call of get_content_md5
\* it made: the data as it was given and what the call returned or raised.
ContentOnRequest ==
    /\ pc = "validate"
    /\ LET validate_content == Pop(options, "validate_content", FALSE)
           r == get_content_md5(request.body)
       IN  /\ options' = Without(options, {"validate_content"})
           /\ IF validate_content /\ request.method # "GET"
              THEN /\ calc' = [fn |-> "get_content_md5", data |-> request.body,
                               result |-> r.result]
                   /\ IF r.result.raises = "none"
                      THEN LET computed_md5 == encode_base64(r.result.value)
                           IN  /\ request' =
                                    [request EXCEPT
                                       !.body = r.data,
                                       !.headers = SetItem(@, header_name, computed_md5),
                                       !.context =
                                          SetItem(SetItem(@, "validate_content_md5", computed_md5),
                                                  "validate_content", validate_content)]
                               /\ pc' = "init"
                               /\ UNCHANGED raised
                      ELSE /\ request' = [request EXCEPT !.body = r.data]
                           /\ pc' = "rejected"
                           /\ raised' = r.result.raises
              ELSE /\ request' =
                        [request EXCEPT
                           !.context = SetItem(@, "validate_content", validate_content)]
                   /\ pc' = "init"
                   /\ UNCHANGED <<calc, raised>>
    /\ UNCHANGED <<policy, settings, response, trace, next_stage, calls,
                   storage_hosts>>

NextContent ==
    \/ ContentOnRequest
    \/ SendBegin
    \/ AttemptFinal
    \/ AttemptRetryable
    \/ AttemptAzureError
    \/ AttemptOtherError

SpecContent == InitContent /\ [][NextContent]_vars

-----------------------------------------------------------------------------
\* Vocabulary of the properties

Sends == SelectSeq(trace, LAMBDA e : e.ev = "send")
Sleeps == SelectSeq(trace, LAMBDA e : e.ev = "sleep")
NumSends == Len(Sends)
LastSend == Sends[NumSends]

Done == pc \in {"returned", "raised"}

\* The attempt e failed: it got a retryable status or an AzureError.
Failed(e) ==
    IF IsError(e.outcome) THEN e.outcome.error \in AzureErrors
    ELSE is_retry(e.outcome.status, e.mode)

\* The attempt e was answered by a response that is not retryable.
Succeeded(e) == ~IsError(e.outcome) /\ ~is_retry(e.outcome.status, e.mode)

NumFailed == Len(SelectSeq(Sends, Failed))

AnyNegative(s) == s.total < 0 \/ s.connect < 0 \/ s.read < 0 \/ s.status < 0

\* The body is a stream that cannot be put back to where it started.
CannotRewind == IsStream(request.body)
                /\ (settings.body_position = None \/ ~request.body.seek_ok)

BothConfigured(hosts) ==
    DOMAIN hosts = LocationMode /\ \A m \in LocationMode : hosts[m] # NoHost

----------------------------------------------------------------------------
\* Properties

\* C1: is_retry(response, mode) is true exactly when the status is 408, or
\* the status is 404 and the mode is SECONDARY, or the status is >= 500 and
\* neither 501 nor 505; for every other status it is false, whatever the mode.
C1_IsRetryTable ==
    calc.fn = "is_retry" =>
        (calc.result <=>
            \/ calc.status = 408
            \/ calc.status = 404 /\ calc.mode = SECONDARY
            \/ calc.status >= 500 /\ calc.status \notin {501, 505})

C1_Witness ==
    calc.fn = "is_retry" /\ calc.status = 404 /\ calc.mode = SECONDARY /\ calc.result

\* C2 as stated: N consecutive failed attempts followed by a success, with
\* N <= total_retries, make exactly N+1 sends and send returns on the last:
\* send never stops on one of the first total_retries failures, and when it
\* returns a success it has sent once per failure and once more.
C2_Original ==
    Done /\ NumSends > 0 =>
        /\ Failed(LastSend) => NumFailed > policy.total_retries
        /\ Succeeded(LastSend) =>
             /\ NumSends = NumFailed + 1
             /\ pc = "returned" /\ response.status = LastSend.outcome.status

\* C2 amended: N consecutive failed attempts followed by a success make
\* exactly N+1 sends, and send returns on the last, provided that after each
\* of the N failures none of the four budgets is negative and a stream body
\* could be rewound: send stops on a failure only if a budget is negative or
\* the body cannot be rewound.
C2_Amended ==
    Done /\ NumSends > 0 =>
        /\ Failed(LastSend) => AnyNegative(settings) \/ CannotRewind
        /\ Succeeded(LastSend) =>
             /\ NumSends = NumFailed + 1
             /\ settings.count = NumFailed
             /\ pc = "returned" /\ response.status = LastSend.outcome.status

C2_Witness ==
    /\ pc = "returned" /\ NumSends = 3 /\ NumFailed = 2
    /\ Succeeded(LastSend) /\ policy.total_retries >= 2

\* The scenario of C3: total_retries=3, connect_retries=1 and every attempt
\* so far failed with a connect-phase error.
C3_Scenario ==
    /\ pc # "init"
    /\ policy.total_retries = 3 /\ policy.connect_retries = 1
    /\ \A i \in 1 .. NumSends : Sends[i].outcome = Err(ServiceRequestError)

\* C3 as stated: in the scenario a third attempt is sent and it is the third
\* attempt's error that is raised, with total still holding one credit.
C3_Original ==
    C3_Scenario /\ pc = "raised" => NumSends = 3 /\ settings.total = 1

\* C3 amended: in the scenario the first error takes connect to 0 and is
\* retried, the second takes it to -1, no third attempt is sent and the second
\* attempt's error is raised, with total still holding one credit.
C3_Amended ==
    C3_Scenario =>
        /\ NumSends <= 2
        /\ NumSends = 1 => pc = "loop" /\ settings.connect = 0 /\ settings.total = 2
        /\ NumSends = 2 => /\ pc = "raised" /\ raised = ServiceRequestError
                           /\ settings.connect = -1 /\ settings.total = 1

C3_Witness == C3_Scenario /\ pc = "raised" /\ NumSends = 2

\* C4: is_exhausted(settings) is true exactly when one of the four budgets is
\* negative; a budget at 0 does not stop retrying, and no send is made once a
\* budget is negative, whatever the other three are.
C4_ExhaustedIffNegative ==
    pc # "init" =>
        /\ is_exhausted(settings) <=> AnyNegative(settings)
        /\ pc = "loop" => ~AnyNegative(settings)

C4_Witness ==
    /\ pc = "raised" /\ settings.count >= 1
    /\ settings.connect = 0 /\ settings.read < 0
    /\ settings.total > 0 /\ settings.status > 0

\* C5: with ExponentialRetry(initial_backoff=15, increment_base=3,
\* random_jitter_range=0) the delays slept before the first, second and third
\* retry are 15, 18 and 24.
C5_DocstringDelays ==
    /\ policy.kind = "ExponentialRetry"
    /\ policy.args.initial_backoff = 15 /\ policy.args.increment_base = 3
    /\ policy.args.random_jitter_range = 0
    => \A i \in 1 .. Len(Sleeps) : i <= 3 => Sleeps[i].delay = <<15, 18, 24>>[i]

\* C6: with jitter 0 the exponential get_backoff_time is initial_backoff for
\* count 0 and initial_backoff + increment_base^count for count > 0.
C6_ExponentialValue ==
    calc.fn = "exponential" /\ calc.jitter = 0 =>
        calc.result = IF calc.count = 0 THEN calc.initial_backoff
                      ELSE calc.initial_backoff + calc.increment_base ^ calc.count

C6_Witness ==
    /\ calc.fn = "exponential" /\ calc.jitter = 0
    /\ calc.initial_backoff = 15 /\ calc.increment_base = 3
    /\ calc.count = 2 /\ calc.result = 24

\* C7: for a backoff b >= 0 and a jitter j >= 0 the value of get_backoff_time
\* (exponential and linear) lies in [max(0, b - j), b + j].
C7_JitterInterval ==
    calc.fn \in {"exponential", "linear"} =>
        /\ calc.result >= 0
        /\ calc.result >= calc.backoff - calc.jitter
        /\ calc.result <= calc.backoff + calc.jitter

C7_Witness ==
    /\ calc.fn = "linear" /\ calc.backoff < calc.jitter
    /\ calc.result = 0

\* Failover applies: the method is not PUT, retry_to_secondary is on and both
\* hosts are configured.
FailoverOn ==
    /\ pc # "init"
    /\ request.method # "PUT"
    /\ settings.retry_secondary
    /\ BothConfigured(settings.hosts)

\* C8 as stated: with failover applying, every retry is sent to the host of
\* the other location, and the retry after that to the original host again.
C8_Original ==
    FailoverOn =>
        \A i \in 1 .. NumSends :
            /\ i + 1 <= NumSends =>
                 /\ Sends[i + 1].mode # Sends[i].mode
                 /\ Sends[i + 1].url.netloc = settings.hosts[Sends[i + 1].mode]
            /\ i + 2 <= NumSends =>
                 Sends[i + 2].url.netloc = Sends[i].url.netloc

\* C8 amended: with failover applying, every retry is sent to the host of the
\* other location, and the retry after that to the host configured for the
\* location the first of the three was sent with.
C8_Amended ==
    FailoverOn =>
        \A i \in 1 .. NumSends :
            /\ i + 1 <= NumSends =>
                 /\ Sends[i + 1].mode # Sends[i].mode
                 /\ Sends[i + 1].url.netloc = settings.hosts[Sends[i + 1].mode]
            /\ i + 2 <= NumSends =>
                 /\ Sends[i + 2].mode = Sends[i].mode
                 /\ Sends[i + 2].url.netloc = settings.hosts[Sends[i].mode]

C8_Witness ==
    /\ FailoverOn /\ NumSends = 3
    /\ Sends[1].url.netloc = OtherHost /\ Sends[1].mode = PRIMARY
    /\ Sends[2].url.netloc = SecondaryHost
    /\ Sends[3].url.netloc = PrimaryHost

\* Every send so far was made with the same location mode and the same URL,
\* the request still has that URL and a returned response carries that mode.
NeverMoved ==
    /\ \A i \in 1 .. NumSends :
         Sends[i].mode = Sends[1].mode /\ Sends[i].url = Sends[1].url
    /\ NumSends > 0 => request.url = Sends[1].url
    /\ pc = "returned" => response.location_mode = Sends[1].mode

\* C9: for a PUT request location_mode and the URL are the same at every send
\* and in the mode annotated on the returned response.
C9_PutNeverMoves == request.method = "PUT" => NeverMoved

C9_Witness ==
    /\ request.method = "PUT" /\ pc = "returned" /\ NumSends = 3
    /\ settings.retry_secondary /\ BothConfigured(settings.hosts)

\* C10: for a request whose method is a mutating write (PUT, POST, DELETE,
\* PATCH, MERGE) no retry changes location_mode or the host of the request.
C10_WritesNeverMove ==
    request.method \in {"PUT", "POST", "DELETE", "PATCH", "MERGE"} => NeverMoved

\* C11: if retry_to_secondary is false or the hosts mapping is absent, then
\* for every method location_mode and the request URL are the same at every
\* send of the call and after it.
C11_NoFailoverWithoutConfig ==
    pc # "init" /\ (~settings.retry_secondary \/ DOMAIN settings.hosts = {})
        => NeverMoved

C11_Witness ==
    /\ pc = "returned" /\ NumSends = 3 /\ request.method = "GET"
    /\ settings.retry_secondary /\ DOMAIN settings.hosts = {}

\* C12: the location is switched only when both a primary and a secondary
\* host name are configured, and the URL then carries the host name configured
\* for the new location, never an empty one.
C12_FailoverNeedsBothHosts ==
    pc # "init" /\ NumSends > 0 =>
        /\ \A i \in 1 .. NumSends - 1 :
             Sends[i + 1].mode # Sends[i].mode =>
                 /\ BothConfigured(settings.hosts)
                 /\ Sends[i + 1].url.netloc = settings.hosts[Sends[i + 1].mode]
        /\ settings.mode # LastSend.mode =>
             /\ BothConfigured(settings.hosts)
             /\ request.url.netloc = settings.hosts[settings.mode]

\* C13: if the body is a stream whose position could not be saved before the
\* first send, the first attempt is still sent and any failure of it ends the
\* call: exactly one send is made, whatever budgets remain.
C13_NoPositionOneSend ==
    pc # "init" /\ IsStream(request.body) /\ settings.body_position = None =>
        /\ NumSends <= 1
        /\ NumSends = 1 => Done

C13_Witness ==
    /\ IsStream(request.body) /\ request.body.seek_ok
    /\ pc # "init" /\ settings.body_position = None
    /\ Done /\ NumSends = 1 /\ Failed(LastSend) /\ ~AnyNegative(settings)

\* C14: for a stream body every send of the call starts at the same offset,
\* which is body_position whenever one was saved; if the stream refuses to
\* seek after a failed attempt no further send is made.
C14_SendsStartAtReplayPosition ==
    pc # "init" /\ IsStream(request.body) =>
        /\ \A i \in 1 .. NumSends : Sends[i].pos = Sends[1].pos
        /\ settings.body_position # None =>
             /\ \A i \in 1 .. NumSends : Sends[i].pos = settings.body_position
             /\ pc = "loop" => request.body.pos = settings.body_position
        /\ ~request.body.seek_ok => NumSends <= 1 /\ (NumSends = 1 => Done)

C14_Witness ==
    /\ IsStream(request.body) /\ request.body.seek_ok
    /\ pc = "returned" /\ NumSends = 3
    /\ settings.body_position = 0 /\ Sends[3].pos = 0
    /\ request.body.pos = BodyLen

\* C15: when the retries stop on a failed attempt (a budget is exhausted or
\* exhaustion is forced), send raises that attempt's error if it failed with
\* an error, and otherwise returns that attempt's retryable response with its
\* status; neither kind of failure is turned into the other.
C15_LastFailureSurfaces ==
    Done /\ NumSends > 0 /\ Failed(LastSend) =>
        IF IsError(LastSend.outcome)
        THEN /\ pc = "raised" /\ raised = LastSend.outcome.error
             /\ response = NoResponse
        ELSE /\ pc = "returned" /\ response.status = LastSend.outcome.status
             /\ raised = "none"

C15_Witness ==
    /\ pc = "raised" /\ NumSends >= 2 /\ AnyNegative(settings)
    /\ ~IsError(Sends[1].outcome)
    /\ IsError(LastSend.outcome) /\ raised = LastSend.outcome.error

\* The attempt e failed in a way increment records: a connect-phase error, a
\* response-phase error or a retryable response.
Recorded(e) ==
    Failed(e) /\ (IsError(e.outcome) =>
                    e.outcome.error \in {ServiceRequestError, ServiceResponseError})

\* One history entry per attempt of s, in the order of s.
Entries(s) == [i \in 1 .. Len(s) |-> RequestHistory(s[i].outcome)]

\* The attempts made before the last one.
PriorSends == SubSeq(Sends, 1, NumSends - 1)

\* C16 as stated: a response returned after at least one retry carries a
\* history with exactly one entry for each prior failed attempt, oldest first.
C16_Original ==
    pc = "returned" /\ settings.count >= 1 =>
        /\ response.has_history
        /\ response.history = Entries(PriorSends)

\* C16 amended: a response returned after at least one retry carries a
\* history (none when it would be empty) with exactly one entry for each
\* failed attempt of the call that was a connect-phase error, a response-phase
\* error or a retryable response, the returned response included when it is
\* itself retryable, oldest first; any other AzureError leaves no entry.
C16_Amended ==
    pc = "returned" /\ settings.count >= 1 =>
        /\ response.history = Entries(SelectSeq(Sends, Recorded))
        /\ response.has_history <=> response.history # <<>>

C16_Witness ==
    /\ pc = "returned" /\ settings.count >= 1 /\ NumSends = 4
    /\ Sends[1].outcome = Err(ServiceRequestError)
    /\ Sends[2].outcome = Err(AzureError)
    /\ Sends[3].outcome = Resp(500)
    /\ Succeeded(LastSend)
    /\ response.has_history
    /\ response.history = <<RequestHistory(Err(ServiceRequestError)),
                            RequestHistory(Resp(500))>>

\* C17 as stated: a history is attached only if retries occurred and holds
\* only outcomes of attempts made before the one that produced the returned
\* response.
C17_Original ==
    pc = "returned" =>
        /\ response.has_history => settings.count >= 1
        /\ response.history = Entries(SelectSeq(PriorSends, Recorded))

\* C17 amended: a history is attached only if a failed attempt was recorded;
\* with a returned response that is not retryable, retries occurred and the
\* history holds only outcomes of earlier attempts; a retryable response that
\* is returned because the retries stopped is itself the last entry of its
\* history, which is attached even if no retry occurred.
C17_Amended ==
    pc = "returned" =>
        /\ response.has_history <=> response.history # <<>>
        /\ IF Succeeded(LastSend)
           THEN /\ response.history = Entries(SelectSeq(PriorSends, Recorded))
                /\ response.has_history => settings.count >= 1
           ELSE /\ response.history =
                       Append(Entries(SelectSeq(PriorSends, Recorded)),
                              RequestHistory(LastSend.outcome))
                /\ response.has_history

C17_Witness ==
    /\ pc = "returned" /\ NumSends = 1 /\ settings.count = 0
    /\ Failed(LastSend)
    /\ response.has_history
    /\ response.history = <<RequestHistory(LastSend.outcome)>>

\* C18: each call of increment lowers total by exactly 1 and lowers by
\* exactly 1 the one class budget of the failure (connect for a connect-phase
\* error, read for a response-phase error, status for a retryable status),
\* leaving the other class budgets as they were.
C18_IncrementFrame ==
    [][pc = "loop" /\ NumSends' = NumSends + 1 /\ Failed(LastSend') =>
          LET o == LastSend'.outcome
          IN  /\ settings'.total = settings.total - 1
              /\ settings'.connect = settings.connect
                     - (IF o = Err(ServiceRequestError) THEN 1 ELSE 0)
              /\ settings'.read = settings.read
                     - (IF o = Err(ServiceResponseError) THEN 1 ELSE 0)
              /\ settings'.status = settings.status
                     - (IF ~IsError(o) THEN 1 ELSE 0)]_vars

C18_Witness ==
    /\ pc = "loop" /\ NumSends = 1 /\ ~IsError(LastSend.outcome)
    /\ settings.total = policy.total_retries - 1
    /\ settings.status = policy.status_retries - 1
    /\ settings.connect = policy.connect_retries
    /\ settings.read = policy.read_retries

\* C19: the count starts at 0, is raised by exactly 1 by every failed attempt
\* that is retried and not by the final attempt; at every send it is the
\* number of sends already made.
C19_CountIsSendsMade ==
    pc # "init" =>
        /\ \A i \in 1 .. NumSends : Sends[i].count = i - 1
        /\ pc = "loop" => settings.count = NumSends
        /\ Done => settings.count = NumSends - 1

C19_Witness ==
    /\ Done /\ NumSends = 3 /\ Failed(LastSend) /\ settings.count = 2

\* The steps of a retry in the trace: every send that is not the last thing
\* the call did is followed by the hook call (if a hook is set), carrying
\* retry_count(k) and the location mode of the next send, then by the sleep
\* (left out only if the backoff drawn can be 0), then by the next send,
\* whose count is one more.
RetrySteps(retry_count(_)) ==
    /\ Len(trace) > 0 => trace[1].ev = "send"
    /\ Done => trace[Len(trace)].ev = "send"
    /\ \A k \in 1 .. Len(trace) :
         trace[k].ev = "send" /\ (k < Len(trace) \/ pc = "loop") =>
            LET h == IF settings.hook THEN 1 ELSE 0
                slept == k + h + 1 <= Len(trace) /\ trace[k + h + 1].ev = "sleep"
                nxt == k + h + (IF slept THEN 1 ELSE 0) + 1
                mode == IF nxt <= Len(trace) THEN trace[nxt].mode ELSE settings.mode
            IN  /\ settings.hook =>
                     /\ k + 1 <= Len(trace) /\ trace[k + 1].ev = "hook"
                     /\ trace[k + 1].retry_count = retry_count(k)
                     /\ trace[k + 1].location_mode = mode
                /\ slept \/ 0 \in get_backoff_time(policy, [count |-> trace[k].count + 1])
                /\ IF nxt <= Len(trace)
                   THEN trace[nxt].ev = "send" /\ trace[nxt].count = trace[k].count + 1
                   ELSE /\ nxt = Len(trace) + 1 /\ pc = "loop"
                        /\ settings.count = trace[k].count + 1

\* The count after the increment that follows the send at position k.
CountAfter(k) == trace[k].count + 1

\* The count before the increment that follows the send at position k.
CountBefore(k) == trace[k].count

\* C20 as stated: on every retry the count is incremented, the hook is called
\* once, the policy sleeps and the request is sent again, and the hook is
\* given the count as it is after the increment and the current location mode.
C20_Original == pc # "init" => RetrySteps(CountAfter)

\* C20 amended: the same order of steps, but the hook is given the count as
\* it was before this retry's increment (attempt_count - 1, 0 on the first
\* retry), with the current location mode.
C20_Amended == pc # "init" => RetrySteps(CountBefore)

C20_Witness ==
    /\ pc # "init" /\ settings.hook /\ NumSends = 3 /\ Len(trace) = 7
    /\ trace[2].ev = "hook" /\ trace[2].retry_count = 0
    /\ trace[2].location_mode = SECONDARY
    /\ trace[3].ev = "sleep"
    /\ trace[4].ev = "send" /\ trace[4].count = 1 /\ trace[4].mode = SECONDARY
    /\ trace[5].ev = "hook" /\ trace[5].retry_count = 1

\* The components of a URL other than its network location.
Rest(url) ==
    LET p == urlparse(url)
    IN  <<p.scheme, p.path, p.params, p.query, p.fragment>>

\* C21: a failover rewrites only the network location of the request URL:
\* the scheme, path, query and fragment of the URL of every send, and of the
\* request as it is left, are those of the URL of the first send, however
\* many failovers were made.
C21_OnlyNetlocRewritten ==
    pc # "init" =>
        /\ \A i \in 1 .. NumSends : Rest(Sends[i].url) = Rest(Sends[1].url)
        /\ NumSends > 0 => Rest(request.url) = Rest(Sends[1].url)

C21_Witness ==
    /\ NumSends = 3
    /\ Sends[1].url.scheme = "HTTPS" /\ Sends[1].url.marks = {"#"}
    /\ Sends[1].url.query = "a=1"
    /\ Sends[2].url.netloc = SecondaryHost /\ Sends[2].url.scheme = "https"
    /\ Sends[3].url.netloc = PrimaryHost /\ Sends[3].url.query = "a=1"

\* The call number k of the two, running or waiting.
Call(k) == IF calls.cur = k THEN Running ELSE calls.parked

OtherMode(mode) == IF mode = PRIMARY THEN SECONDARY ELSE PRIMARY

\* The call c, given the options g, stands where its own attempts put it:
\* its budgets are those it started with (the override, else the default the
\* policy was constructed with) less its own failures, its count is the number
\* of its own retries, its history lists its own recorded failures and its
\* location mode is the one it started in, switched once per retry of its own
\* if failover applies to it.
OwnAccount(c, g) ==
    LET sends == SelectSeq(c.trace, LAMBDA e : e.ev = "send")
        failed == SelectSeq(sends, Failed)
        connect == SelectSeq(sends, LAMBDA e : e.outcome = Err(ServiceRequestError))
        read == SelectSeq(sends, LAMBDA e : e.outcome = Err(ServiceResponseError))
        status == SelectSeq(failed, LAMBDA e : ~IsError(e.outcome))
        constructed == Construct(policy.kind, policy.args)
        retries == IF c.pc = "loop" THEN Len(sends) ELSE Len(sends) - 1
        mode == Pop(g, "location_mode", PRIMARY)
        failover == /\ Pop(g, "retry_to_secondary", constructed.retry_to_secondary)
                    /\ c.request.method \notin NoFailoverMethods
                    /\ BothConfigured(Pop(g, "hosts", NoHosts))
    IN  c.pc \in {"loop", "returned", "raised"} =>
          /\ c.settings.total =
                Pop(g, "retry_total", constructed.total_retries) - Len(failed)
          /\ c.settings.connect =
                Pop(g, "retry_connect", constructed.connect_retries) - Len(connect)
          /\ c.settings.read =
                Pop(g, "retry_read", constructed.read_retries) - Len(read)
          /\ c.settings.status =
                Pop(g, "retry_status", constructed.status_retries) - Len(status)
          /\ c.settings.count = retries
          /\ c.settings.history = Entries(SelectSeq(sends, Recorded))
          /\ c.settings.mode =
                IF failover /\ retries % 2 = 1 THEN OtherMode(mode) ELSE mode

\* C22: two calls of send on one policy, interleaved in any order, are
\* independent: the budgets, count, location mode and history of each are
\* accounted for by its own attempts alone, and the defaults of the policy
\* stay as constructed, also when a request passes overrides.
C22_CallsIndependent ==
    /\ policy = Construct(policy.kind, policy.args)
    /\ \A k \in 1 .. 2 : OwnAccount(Call(k), calls.given[k])

C22_Witness ==
    /\ calls.cur = 1 /\ pc = "loop"
    /\ settings.count = 2 /\ settings.total = 0 /\ settings.mode = PRIMARY
    /\ calls.parked.pc = "loop"
    /\ calls.parked.settings.count = 1 /\ calls.parked.settings.total = 0
    /\ calls.parked.settings.status = 0

\* C23: with LinearRetry constructed with random_jitter_range=0, the delay
\* before every retry of a request is the configured backoff, whatever the
\* count.
C23_LinearFixedDelay ==
    policy.kind = "LinearRetry" /\ policy.args.random_jitter_range = 0 =>
        \A i \in 1 .. Len(Sleeps) : Sleeps[i].delay = policy.args.backoff

\* The total budget the running call started with.
StartTotal == Pop(calls.given[calls.cur], "retry_total", policy.total_retries)

Max(a, b) == IF a >= b THEN a ELSE b
Min(a, b) == IF a <= b THEN a ELSE b

\* C24: whatever integer budgets the policy was constructed with and whatever
\* the attempts are answered with, send returns or raises, and it never makes
\* more than max(retry_total, 0) + 1 sends.
C24_Terminates ==
    /\ <>Done
    /\ [](NumSends <= Max(StartTotal, 0) + 1)

C24_Witness ==
    /\ Done /\ Failed(LastSend)
    /\ StartTotal = MaxDeficit + 1 /\ NumSends = StartTotal + 1
    /\ policy.connect_retries = 0 /\ policy.read_retries = 1

\* The class of the failure of attempt e, "none" if it has none.
FailureClass(e) ==
    IF e.outcome = Err(ServiceRequestError) THEN "connect"
    ELSE IF e.outcome = Err(ServiceResponseError) THEN "read"
    ELSE IF ~IsError(e.outcome) /\ Failed(e) THEN "status"
    ELSE "none"

\* Every attempt made failed with class X.
AllFailedWith(X) ==
    NumSends > 0 /\ \A i \in 1 .. NumSends : FailureClass(Sends[i]) = X

\* The budget of class X the constructor was given.
Configured(X) ==
    IF X = "connect" THEN policy.args.retry_connect
    ELSE IF X = "read" THEN policy.args.retry_read
    ELSE policy.args.retry_status

\* C25: a request without a stream body whose attempts all fail with the
\* same class X makes exactly min(retry_total, retry_X) + 1 sends (budgets
\* not negative); with the arguments left at their defaults that is 4 sends
\* for the base class (total 10, the others 3) and for ExponentialRetry and
\* LinearRetry (total 3).
C25_SendsOfOneClass ==
    \A X \in {"connect", "read", "status"} :
        Done /\ ~IsStream(request.body) /\ AllFailedWith(X) =>
            /\ NumSends = Min(policy.args.retry_total, Configured(X)) + 1
            /\ policy.args = Defaults(policy.kind) => NumSends = 4

C25_Witness ==
    /\ Done /\ AllFailedWith("read")
    /\ policy.kind = "TablesRetryPolicy" /\ policy.args = Defaults(policy.kind)
    /\ policy.total_retries = 10 /\ settings.total = 6 /\ settings.read = -1
    /\ NumSends = 4

\* C26: whenever a send is about to be made, the remaining total plus the
\* count is the total budget the request started with and none of the four
\* budgets is negative; a budget is negative only once send is about to
\* return or raise.
C26_BudgetsAtSends ==
    pc # "init" =>
        /\ pc = "loop" => /\ settings.total + settings.count = StartTotal
                          /\ ~AnyNegative(settings)
        /\ AnyNegative(settings) => Done

C26_Witness ==
    /\ pc = "loop" /\ StartTotal = 3
    /\ settings.count = 2 /\ settings.total = 1
    /\ settings.connect = 0 /\ settings.status = 1

\* C27: the location mode annotated on a response that send returns is the
\* mode in effect when the attempt that produced the response was sent, also
\* when the retries are exhausted and when a stream body that cannot be
\* rewound stops them with failover enabled.
C27_AnnotatedModeIsSentMode ==
    pc = "returned" => response.location_mode = LastSend.mode

\* C28: an AzureError that is neither a connect-phase nor a response-phase
\* error lowers total by 1, leaves connect, read and status as they were and
\* adds nothing to the history, and the request is sent again unless a budget
\* is negative (or a stream body cannot be rewound), in which case the error
\* is raised; an error that is not an AzureError is raised at once, with no
\* retry and no change of the budgets.
C28_UnclassifiedErrors ==
    [][pc = "loop" /\ NumSends' = NumSends + 1 =>
          LET o == LastSend'.outcome
          IN  /\ o = Err(AzureError) =>
                   /\ settings'.total = settings.total - 1
                   /\ settings'.connect = settings.connect
                   /\ settings'.read = settings.read
                   /\ settings'.status = settings.status
                   /\ settings'.history = settings.history
                   /\ IF AnyNegative(settings') \/ CannotRewind'
                      THEN pc' = "raised" /\ raised' = AzureError
                      ELSE pc' = "loop" /\ settings'.count = settings.count + 1
              /\ o = Err(OtherException) =>
                   /\ pc' = "raised" /\ raised' = OtherException
                   /\ settings' = settings]_vars

C28_Witness ==
    /\ pc = "loop" /\ NumSends = 2
    /\ Sends[1].outcome = Err(AzureError) /\ Sends[2].outcome = Err(AzureError)
    /\ settings.total = StartTotal - 2 /\ settings.count = 2
    /\ settings.history = <<>>
    /\ settings.connect = policy.connect_retries
    /\ settings.read = policy.read_retries
    /\ settings.status = policy.status_retries

\* The use_location the request was given, NoLocation if none.
UseLocation == Pop(calls.given[1], "use_location", NoLocation)

\* C29: a request that names a use_location that is a key of hosts leaves
\* on_request with the URL host hosts[use_location], location_mode
\* use_location and retry_to_secondary false, and every send of the request
\* then goes to that host, whatever fails; when use_location is not a key of
\* hosts, on_request raises ValueError and leaves the request URL as it was.
C29_LockedToLocation ==
    [][UseLocation # NoLocation =>
          IF UseLocation \in DOMAIN storage_hosts.hosts
          THEN /\ pc = "request" =>
                    /\ pc' = "init"
                    /\ request'.url.netloc = storage_hosts.hosts[UseLocation]
                    /\ options'.location_mode = UseLocation
                    /\ options'.retry_to_secondary = FALSE
               /\ \A i \in 1 .. NumSends' :
                    /\ Sends'[i].url.netloc = storage_hosts.hosts[UseLocation]
                    /\ Sends'[i].mode = UseLocation
          ELSE pc = "request" =>
                    /\ pc' = "rejected" /\ raised' = "ValueError"
                    /\ request'.url = request.url]_vars

\* The id and the text of a document or of an entry of the batch.
DocId(x) == IF isinstance(x, {"dict"}) THEN Pop(x.entries, "id", NoneStr) ELSE x.id
DocText(x) == IF isinstance(x, {"dict"}) THEN Pop(x.entries, "text", NoneStr) ELSE x.text

\* C30: _validate_input raises ValueError for an empty or None input,
\* TypeError for a single string, for a single dict and for a list that is
\* neither all strings nor all dict / TextDocumentInput / DetectLanguageInput
\* items, and returns no batch then; for every other input it returns one
\* entry per document, in the order of the input, the entry of a string at
\* index i having the id str(i) and the string as its text.
C30_ValidateInput ==
    calc.fn = "_validate_input" =>
        LET documents == calc.documents
            result == calc.result
            accepted ==
                /\ isinstance(documents, {"list"}) /\ documents.items # <<>>
                /\ \/ AllInstances(documents.items, {"str"})
                   \/ AllInstances(documents.items,
                         {"dict", "TextDocumentInput", "DetectLanguageInput"})
        IN  /\ ~Truthy(documents) => result = Raise("ValueError")
            /\ Truthy(documents) /\ ~accepted => result = Raise("TypeError")
            /\ accepted =>
                 /\ result.raises = "none"
                 /\ Len(result.value) = Len(documents.items)
                 /\ \A i \in 1 .. Len(documents.items) :
                      LET doc == documents.items[i]
                          entry == result.value[i]
                      IN  IF isinstance(doc, {"str"})
                          THEN /\ isinstance(entry, {"dict"})
                               /\ DocId(entry) = str(i - 1)
                               /\ DocText(entry) = doc.chars
                          ELSE /\ entry.type = doc.type
                               /\ DocId(entry) = DocId(doc)
                               /\ DocText(entry) = DocText(doc)

C30_Witness ==
    /\ calc.fn = "_validate_input"
    /\ calc.documents = PyList(<<PyStr("b"), PyStr("a")>>)
    /\ calc.hint = "country_hint" /\ calc.whole_input_hint = "NONE"
    /\ calc.result.raises = "none"
    /\ calc.result.value = <<HintedDict("0", "country_hint", "", "b"),
                             HintedDict("1", "country_hint", "", "a")>>

\* The hint a document or an entry carries under the key / attribute hint,
\* NoneStr if it carries none.
DocHint(x, hint) ==
    IF isinstance(x, {"dict"}) THEN Pop(x.entries, hint, NoneStr)
    ELSE IF isinstance(x, {"TextDocumentInput"}) THEN x.language
    ELSE IF isinstance(x, {"DetectLanguageInput"}) THEN x.country_hint
    ELSE NoneStr

\* A country hint of "none", in any letter case, stands for no hint at all.
Normalised(hint, value) ==
    IF hint = "country_hint" /\ lower(value) = "none" THEN "" ELSE value

\* The documents the hint applies to: strings and dicts for both hints,
\* TextDocumentInput for language, DetectLanguageInput for country_hint.
Hinted(doc, hint) ==
    \/ isinstance(doc, {"str", "dict"})
    \/ isinstance(doc, {"TextDocumentInput"}) /\ hint = "language"
    \/ isinstance(doc, {"DetectLanguageInput"}) /\ hint = "country_hint"

C32_StringIndexType ==
    calc.fn = "_check_string_index_type_arg" =>
        LET given == calc.string_index_type_arg # NoneStr
            v30 == calc.api_version = "v3.0"
        IN  /\ calc.result.raises = "ValueError" <=> (v30 /\ given)
            /\ calc.result.raises \in {"none", "ValueError"}
            /\ v30 /\ ~given => calc.result.value = NoneStr
            /\ ~v30 /\ given =>
                   calc.result.value = calc.string_index_type_arg
            /\ ~v30 /\ ~given =>
                   calc.result.value = calc.string_index_type_default
            /\ ~v30 /\ calc.string_index_type_default # NoneStr =>
                   calc.result.value # NoneStr

\* The empty string is an argument that is given: with "v3.0" it raises.
C32_Witness ==
    /\ calc.fn = "_check_string_index_type_arg"
    /\ calc.api_version = "v3.0"
    /\ calc.string_index_type_arg = ""
    /\ calc.result.raises = "ValueError"

\* A stream that can tell where it is and seek.
Seekable(data) == IsStream(data) /\ data.tell_ok /\ data.seek_ok

\* C33: get_content_md5 of a seekable stream digests the bytes from the
\* current position to the end and leaves the stream at the position it had on
\* entry, so the retry policy records that position and every send, the
\* replays included, starts from it; for data that is neither bytes nor
\* readable, or a stream that cannot seek back, it raises ValueError.
C33_ChecksumKeepsOffset ==
    calc.fn = "get_content_md5" =>
        LET data == calc.data
        IN  /\ Seekable(data) =>
                /\ calc.result.raises = "none"
                /\ calc.result.value = md5(SubSeq(Content, data.pos + 1, BodyLen))
                /\ pc = "init" => request.body.pos = data.pos
                /\ pc \notin {"init", "rejected"} =>
                       settings.body_position = data.pos
                /\ \A i \in 1 .. NumSends : Sends[i].pos = data.pos
            /\ \/ data.kind \notin {"bytes", "stream"}
               \/ IsStream(data) /\ ~data.seek_ok
               => /\ calc.result = Raise("ValueError")
                  /\ pc = "rejected"
                  /\ raised = "ValueError"

\* The checksum of a stream that stands at offset 1 was computed, and the
\* request was sent and replayed.
C33_Witness ==
    /\ calc.fn = "get_content_md5"
    /\ calc.data = StreamBody(1, TRUE, TRUE)
    /\ calc.result.value = md5(<<2>>)
    /\ NumSends = 2
    /\ Sends[2].pos = 1

====
